---- MODULE Spec2Model ----
(***************************************************************************)
(* PDF outline extractor (src/main.py): process_pdfs runs extract_outline  *)
(* on every PDF of the input directory and writes one {title, outline}     *)
(* record per file.  Texts are sequences of one-character strings so that  *)
(* strip, lower, substring tests and the regular expressions of the code   *)
(* are computed, not assumed.                                              *)
(***************************************************************************)
EXTENDS Integers, Sequences, FiniteSets, TLC

\* ------------------------------------------------------------------ bounds
\* Number of PDF files in the input directory of a multi-file run.
NumFiles == 2
\* Number of pages of a document of the heading family.
MaxPages == 3
\* Number of blocks on the first page of a document of the title family.
MaxTitleBlocks == 2

\* ------------------------------------------------------ characters, strings
Digit == {"0", "1", "2", "3", "4", "5", "6", "7", "8", "9"}

UpperLetters == <<"A", "B", "C", "D", "E", "F", "G", "H", "I", "J", "K", "L", "M", "N", "O", "P", "Q", "R", "S", "T", "U", "V", "W", "X", "Y", "Z">>

LowerLetters == <<"a", "b", "c", "d", "e", "f", "g", "h", "i", "j", "k", "l", "m", "n", "o", "p", "q", "r", "s", "t", "u", "v", "w", "x", "y", "z">>

Upper == {UpperLetters[i] : i \in 1..Len(UpperLetters)}

Lower == {LowerLetters[i] : i \in 1..Len(LowerLetters)}

Letter == Upper \cup Lower

\* The characters str.strip() removes and \s matches.
Space == {" ", "\t", "\n", "\r"}

\* str.lower() on one character.
LowerChar(c) ==
    IF c \in Upper
        THEN LowerLetters[CHOOSE i \in 1..Len(UpperLetters) : UpperLetters[i] = c]
        ELSE c

\* str.lower()
ToLower(s) == [i \in 1..Len(s) |-> LowerChar(s[i])]

RECURSIVE StripLeft(_)
\* str.lstrip()
StripLeft(s) ==
    IF s # <<>> /\ Head(s) \in Space THEN StripLeft(Tail(s)) ELSE s

RECURSIVE StripRight(_)
\* str.rstrip()
StripRight(s) ==
    IF s # <<>> /\ s[Len(s)] \in Space
        THEN StripRight(SubSeq(s, 1, Len(s) - 1)) ELSE s

\* str.strip()
Strip(s) == StripRight(StripLeft(s))

\* pattern in text
Contains(s, p) ==
    \/ p = <<>>
    \/ \E i \in 1..(Len(s) - Len(p) + 1) :
           s[i] = p[1] /\ SubSeq(s, i, i + Len(p) - 1) = p

\* text.startswith(prefix)
StartsWith(s, p) == Len(p) <= Len(s) /\ SubSeq(s, 1, Len(p)) = p

\* str.isupper(): at least one cased character and no lowercase one.
IsUpper(s) ==
    /\ \E i \in 1..Len(s) : s[i] \in Upper
    /\ \A i \in 1..Len(s) : s[i] \notin Lower

\* any(char in text for char in chars)
ContainsAny(s, chars) == \E i \in 1..Len(s) : s[i] \in chars

\* ------------------------------------------------------ regular expressions
\* re.match is run as a position automaton: each element maps the set of
\* positions reached so far to the positions reachable after it, which is
\* what the backtracking matcher explores.  Positions are 1..Len(s)+1.
ReStart == {1}

\* one character of class C
ReOne(s, P, C) == {p + 1 : p \in {q \in P : q <= Len(s) /\ s[q] \in C}}

\* C?
ReOpt(s, P, C) == P \cup ReOne(s, P, C)

\* C+
RePlus(s, P, C) ==
    {q \in 2..(Len(s) + 1) : \E p \in P : p < q /\ \A k \in p..(q - 1) : s[k] \in C}

\* C*
ReStar(s, P, C) == P \cup RePlus(s, P, C)

\* .* (the dot matches every character but the newline)
ReDotStar(s, P) ==
    {q \in 1..(Len(s) + 1) : \E p \in P : p <= q /\ \A k \in p..(q - 1) : s[k] # "\n"}

\* a literal
ReLit(s, P, lit) ==
    {p + Len(lit) : p \in {q \in P : q + Len(lit) - 1 <= Len(s)
                                     /\ SubSeq(s, q, q + Len(lit) - 1) = lit}}

\* $ : the end of the text, or just before a final newline
ReEnd(s, P) ==
    \E p \in P : p = Len(s) + 1 \/ (p = Len(s) /\ s[p] = "\n")

\* a pattern without $ matches when some position is reached
ReAny(P) == P # {}

\* ^RFP:.*\d{4}$
MatchRfpYear(s) ==
    LET a == ReDotStar(s, ReLit(s, ReStart, <<"R", "F", "P", ":">>))
        d == ReOne(s, ReOne(s, ReOne(s, ReOne(s, a, Digit), Digit), Digit), Digit)
    IN  ReEnd(s, d)

\* ^\d+$
MatchNumber(s) == ReEnd(s, RePlus(s, ReStart, Digit))

\* ^\d+\.\s*[a-z]
MatchListItem(s) ==
    ReAny(ReOne(s, ReStar(s, ReLit(s, RePlus(s, ReStart, Digit), <<".">>), Space), Lower))

\* ^\d+\.\d+\s*[A-Za-z]
MatchSubItem(s) ==
    LET a == RePlus(s, ReLit(s, RePlus(s, ReStart, Digit), <<".">>), Digit)
    IN  ReAny(ReOne(s, ReStar(s, a, Space), Letter))

\* ^\$?\d+[MKB]?\$?\d+[MKB]?$
MatchAmounts(s) ==
    LET a == ReOpt(s, RePlus(s, ReOpt(s, ReStart, {"$"}), Digit), {"M", "K", "B"})
        b == ReOpt(s, RePlus(s, ReOpt(s, a, {"$"}), Digit), {"M", "K", "B"})
    IN  ReEnd(s, b)

\* ^[A-Z\s]+\$\d+[MKB]
MatchLabelledAmount(s) ==
    LET a == ReLit(s, RePlus(s, ReStart, Upper \cup Space), <<"$">>)
    IN  ReAny(ReOne(s, RePlus(s, a, Digit), {"M", "K", "B"}))

\* ^\d+\.(\d+)?\s+[A-Za-z]
MatchNumberedHeading(s) ==
    LET a == ReStar(s, ReLit(s, RePlus(s, ReStart, Digit), <<".">>), Digit)
    IN  ReAny(ReOne(s, RePlus(s, a, Space), Letter))

\* n copies of character c
Rep(c, n) == [i \in 1..n |-> c]

\* ----------------------------------------------------- heading heuristics
\* garbage_patterns
GarbagePatterns ==
    { Rep(".", 76), Rep(".", 63), Rep(".", 41), <<"w", "w", "w", ".">>, <<".", "c", "o", "m">>, <<".", "o", "r", "g">> }

\* form_patterns
FormPatterns ==
    { <<"n", "a", "m", "e", " ", "o", "f", " ", "t", "h", "e", " ", "g", "o", "v", "e", "r", "n", "m", "e", "n", "t", " ", "s", "e", "r", "v", "a", "n", "t">>, <<"d", "e", "s", "i", "g", "n", "a", "t", "i", "o", "n">>, <<"s", "e", "r", "v", "i", "c", "e">>,
      <<"p", "a", "y", " ", "+", " ", "s", "i", " ", "+", " ", "n", "p", "a">>, <<"w", "h", "e", "t", "h", "e", "r", " ", "p", "e", "r", "m", "a", "n", "e", "n", "t", " ", "o", "r", " ", "t", "e", "m", "p", "o", "r", "a", "r", "y">>,
      <<"h", "o", "m", "e", " ", "t", "o", "w", "n", " ", "a", "s", " ", "r", "e", "c", "o", "r", "d", "e", "d">>, <<"a", "m", "o", "u", "n", "t", " ", "o", "f", " ", "a", "d", "v", "a", "n", "c", "e", " ", "r", "e", "q", "u", "i", "r", "e", "d">> }

\* The bullet glyph as the source spells it: three characters.
BulletGlyph == <<"U+00E2", "U+20AC", "U+00A2">>

\* Faulty variant of _is_obviously_not_heading: the decimal sub-item pattern
\* is missing.
NoDecimalSubItemRule(text) ==
    \/ Len(text) < 3 \/ Len(text) > 200
    \/ \E p \in GarbagePatterns : Contains(text, p)
    \/ \E p \in FormPatterns : Contains(ToLower(text), p)
    \/ MatchRfpYear(text) \/ MatchNumber(text)
    \/ (Len(text) > 100 /\ ContainsAny(text, {".", ",", ";", ":"}))
    \/ StartsWith(text, BulletGlyph) \/ StartsWith(text, <<"-">>) \/ StartsWith(text, <<"*">>)
    \/ MatchListItem(ToLower(text))
    \/ MatchAmounts(text)
    \/ MatchLabelledAmount(text)

\* _is_obviously_not_heading
IsObviouslyNotHeading(text) ==
    \/ Len(text) < 3 \/ Len(text) > 200
    \/ \E p \in GarbagePatterns : Contains(text, p)
    \/ \E p \in FormPatterns : Contains(ToLower(text), p)
    \/ MatchRfpYear(text) \/ MatchNumber(text)
    \/ (Len(text) > 100 /\ ContainsAny(text, {".", ",", ";", ":"}))
    \/ StartsWith(text, BulletGlyph) \/ StartsWith(text, <<"-">>) \/ StartsWith(text, <<"*">>)
    \/ MatchListItem(ToLower(text))
    \/ MatchSubItem(text)
    \/ MatchAmounts(text)
    \/ MatchLabelledAmount(text)

\* tech_headings
TechHeadings ==
    { <<"r", "e", "v", "i", "s", "i", "o", "n", " ", "h", "i", "s", "t", "o", "r", "y">>, <<"t", "a", "b", "l", "e", " ", "o", "f", " ", "c", "o", "n", "t", "e", "n", "t", "s">>, <<"a", "c", "k", "n", "o", "w", "l", "e", "d", "g", "e", "m", "e", "n", "t", "s">>,
      <<"i", "n", "t", "r", "o", "d", "u", "c", "t", "i", "o", "n">>, <<"r", "e", "f", "e", "r", "e", "n", "c", "e", "s">>, <<"t", "r", "a", "d", "e", "m", "a", "r", "k", "s">>, <<"d", "o", "c", "u", "m", "e", "n", "t", "s">>,
      <<"i", "n", "t", "e", "n", "d", "e", "d", " ", "a", "u", "d", "i", "e", "n", "c", "e">>, <<"c", "a", "r", "e", "e", "r", " ", "p", "a", "t", "h", "s">>, <<"l", "e", "a", "r", "n", "i", "n", "g", " ", "o", "b", "j", "e", "c", "t", "i", "v", "e", "s">>,
      <<"e", "n", "t", "r", "y", " ", "r", "e", "q", "u", "i", "r", "e", "m", "e", "n", "t", "s">>, <<"s", "t", "r", "u", "c", "t", "u", "r", "e", " ", "a", "n", "d", " ", "c", "o", "u", "r", "s", "e", " ", "d", "u", "r", "a", "t", "i", "o", "n">>,
      <<"k", "e", "e", "p", "i", "n", "g", " ", "i", "t", " ", "c", "u", "r", "r", "e", "n", "t">>, <<"b", "u", "s", "i", "n", "e", "s", "s", " ", "o", "u", "t", "c", "o", "m", "e", "s">>, <<"c", "o", "n", "t", "e", "n", "t">> }

\* business_headings
BusinessHeadings ==
    { <<"b", "a", "c", "k", "g", "r", "o", "u", "n", "d">>, <<"s", "u", "m", "m", "a", "r", "y">>, <<"m", "i", "l", "e", "s", "t", "o", "n", "e", "s">>, <<"a", "p", "p", "r", "o", "a", "c", "h">>,
      <<"e", "v", "a", "l", "u", "a", "t", "i", "o", "n">>, <<"a", "p", "p", "e", "n", "d", "i", "x">>, <<"t", "e", "r", "m", "s", " ", "o", "f", " ", "r", "e", "f", "e", "r", "e", "n", "c", "e">> }

\* The branch of the if/elif cascade of _is_likely_heading that a document
\* text selects for the keyword rule.
InclusionProfile(doc_text_lower) ==
    IF Contains(doc_text_lower, <<"f", "o", "u", "n", "d", "a", "t", "i", "o", "n", " ", "l", "e", "v", "e", "l">>) THEN "foundation"
    ELSE IF Contains(doc_text_lower, <<"r", "f", "p">>)
            \/ Contains(doc_text_lower, <<"d", "i", "g", "i", "t", "a", "l", " ", "l", "i", "b", "r", "a", "r", "y">>) THEN "rfp"
    ELSE IF Contains(doc_text_lower, <<"p", "a", "t", "h", "w", "a", "y", " ", "o", "p", "t", "i", "o", "n", "s">>)
            \/ Contains(doc_text_lower, <<"s", "t", "e", "m", " ", "p", "a", "t", "h", "w", "a", "y", "s">>) THEN "pathway"
    ELSE IF Contains(doc_text_lower, <<"h", "o", "p", "e", " ", "t", "o", " ", "s", "e", "e", " ", "y", "o", "u">>)
            \/ Contains(doc_text_lower, <<"r", "s", "v", "p">>) THEN "rsvp"
    ELSE "generic"

\* _is_likely_heading
IsLikelyHeading(text, size, is_bold, doc_text_lower) ==
    \/ MatchNumberedHeading(text)
    \/ (IsUpper(text) /\ Len(text) > 5)
    \/ (is_bold /\ size > 14)
    \/ size > 16
    \/ LET profile == InclusionProfile(doc_text_lower)
       IN  CASE profile = "foundation" ->
                    \E h \in TechHeadings : Contains(ToLower(text), h)
             [] profile = "rfp" ->
                    \E h \in BusinessHeadings : Contains(ToLower(text), h)
             [] profile = "pathway" ->
                    Contains(ToLower(text), <<"p", "a", "t", "h", "w", "a", "y", " ", "o", "p", "t", "i", "o", "n", "s">>)
             [] profile = "rsvp" ->
                    Contains(ToLower(text), <<"h", "o", "p", "e", " ", "t", "o", " ", "s", "e", "e", " ", "y", "o", "u", " ", "t", "h", "e", "r", "e">>)
             [] OTHER -> FALSE

\* ------------------------------------------------------- pages and blocks
\* float('inf'), the starting value of y_position
Infinity == 1000000

\* A span of the text extractor: bbox is (x0, y0, x1, y1).
Span(text, size, flags, top) ==
    [text |-> text, size |-> size, flags |-> flags,
     bbox |-> <<72, top, 540, top + size>>]

\* A text block of one line.
TextBlock(spans) == [lines |-> << [spans |-> spans] >>]

\* A block without a "lines" member (an image).
ImageBlock == [image |-> "png"]

RECURSIVE LineSpans(_)
\* The spans of a block in the order the nested loops visit them.
LineSpans(lines) ==
    IF lines = <<>> THEN <<>>
    ELSE Head(lines).spans \o LineSpans(Tail(lines))

RECURSIVE SpanText(_)
\* block_text += span["text"], over the spans
SpanText(spans) ==
    IF spans = <<>> THEN <<>>
    ELSE Head(spans).text \o SpanText(Tail(spans))

Maximum(S) == CHOOSE x \in S : \A y \in S : y <= x

Minimum(S) == CHOOSE x \in S : \A y \in S : x <= y

\* max_size = max(max_size, span["size"]), from 0
MaxSize(spans) == Maximum({0} \cup {spans[i].size : i \in 1..Len(spans)})

\* span["flags"] & 2**4 on some span
IsBold(spans) == \E i \in 1..Len(spans) : (spans[i].flags \div 16) % 2 = 1

\* y_position = min(y_position, span["bbox"][1]), from infinity
YPosition(spans) ==
    Minimum({Infinity} \cup {spans[i].bbox[2] : i \in 1..Len(spans)})

\* ------------------------------------------------------------ title scorer
RECURSIVE TitleCandidates(_)
\* The candidates list of _extract_title, in block order.
TitleCandidates(blocks) ==
    IF blocks = <<>> THEN <<>>
    ELSE LET block == Head(blocks)
             rest == TitleCandidates(Tail(blocks))
         IN  IF "lines" \notin DOMAIN block THEN rest
             ELSE LET spans == LineSpans(block.lines)
                      block_text == Strip(SpanText(spans))
                  IN  IF Len(block_text) > 10 /\ Len(block_text) < 200
                          THEN << [text |-> block_text, size |-> MaxSize(spans),
                                   bold |-> IsBold(spans),
                                   position |-> YPosition(spans)] >> \o rest
                          ELSE rest

\* The score _extract_title gives a candidate.
TitleScore(candidate) ==
    (IF candidate.bold THEN 3 ELSE 0)
    + (IF candidate.size > 16 THEN 2 ELSE IF candidate.size > 14 THEN 1 ELSE 0)
    + (IF candidate.position < 200 THEN 2 ELSE 0)

\* max(candidates, key=score): the first candidate of the highest score.
BestCandidate(candidates) ==
    LET top == Maximum({TitleScore(candidates[i]) : i \in 1..Len(candidates)})
        first == Minimum({i \in 1..Len(candidates) : TitleScore(candidates[i]) = top})
    IN  candidates[first]

\* Faulty variant of _extract_title: the threshold is score >= 2.
ExtractTitleAtLeast(pages) ==
    IF Len(pages) = 0 THEN <<>>
    ELSE LET candidates == TitleCandidates(pages[1])
         IN  IF candidates = <<>> THEN <<>>
             ELSE LET best_candidate == BestCandidate(candidates)
                  IN  IF TitleScore(best_candidate) >= 2
                          THEN best_candidate.text ELSE <<>>

\* _extract_title on the blocks of the pages of a document
ExtractTitle(pages) ==
    IF Len(pages) = 0 THEN <<>>
    ELSE LET candidates == TitleCandidates(pages[1])
         IN  IF candidates = <<>> THEN <<>>
             ELSE LET best_candidate == BestCandidate(candidates)
                  IN  IF TitleScore(best_candidate) > 2
                          THEN best_candidate.text ELSE <<>>

\* ------------------------------------------------------ heading extraction
RECURSIVE PlainText(_)
\* page.get_text(): the text of the lines of the text blocks, one per line.
PlainText(blocks) ==
    IF blocks = <<>> THEN <<>>
    ELSE LET block == Head(blocks)
         IN  (IF "lines" \notin DOMAIN block THEN <<>>
              ELSE SpanText(LineSpans(block.lines)) \o <<"\n">>)
             \o PlainText(Tail(blocks))

RECURSIVE ConcatPages(_, _)
\* doc_text += doc[i].get_text() for the first n pages
ConcatPages(pages, n) ==
    IF n = 0 THEN <<>>
    ELSE ConcatPages(pages, n - 1) \o PlainText(pages[n])

\* doc_text_lower
DocTextLower(pages) ==
    ToLower(ConcatPages(pages, IF Len(pages) < 3 THEN Len(pages) ELSE 3))

\* The test that makes _extract_headings return [] at once.
IsFormDocument(doc_text_lower) ==
    \/ Contains(doc_text_lower, <<"a", "p", "p", "l", "i", "c", "a", "t", "i", "o", "n", " ", "f", "o", "r", "m">>)
    \/ Contains(doc_text_lower, <<"g", "o", "v", "e", "r", "n", "m", "e", "n", "t", " ", "s", "e", "r", "v", "a", "n", "t">>)

\* Faulty variant of _extract_headings_from_page: a likely heading is kept
\* without asking _is_obviously_not_heading.
RECURSIVE InclusionBeforeExclusion(_, _, _)
InclusionBeforeExclusion(blocks, page_num, doc_text_lower) ==
    IF blocks = <<>> THEN <<>>
    ELSE LET block == Head(blocks)
             rest == InclusionBeforeExclusion(Tail(blocks), page_num, doc_text_lower)
         IN  IF "lines" \notin DOMAIN block THEN rest
             ELSE LET spans == LineSpans(block.lines)
                      block_text == Strip(SpanText(spans))
                      max_size == MaxSize(spans)
                      is_bold == IsBold(spans)
                  IN  IF Len(block_text) < 3 \/ Len(block_text) > 200 THEN rest
                      ELSE IF IsLikelyHeading(block_text, max_size, is_bold, doc_text_lower)
                          THEN << [text |-> block_text, size |-> max_size,
                                   bold |-> is_bold, page |-> page_num] >> \o rest
                      ELSE rest

RECURSIVE ExtractHeadingsFromPage(_, _, _)
\* _extract_headings_from_page; page_num counts from 0.
ExtractHeadingsFromPage(blocks, page_num, doc_text_lower) ==
    IF blocks = <<>> THEN <<>>
    ELSE LET block == Head(blocks)
             rest == ExtractHeadingsFromPage(Tail(blocks), page_num, doc_text_lower)
         IN  IF "lines" \notin DOMAIN block THEN rest
             ELSE LET spans == LineSpans(block.lines)
                      block_text == Strip(SpanText(spans))
                      max_size == MaxSize(spans)
                      is_bold == IsBold(spans)
                  IN  IF Len(block_text) < 3 \/ Len(block_text) > 200 THEN rest
                      ELSE IF IsObviouslyNotHeading(block_text) THEN rest
                      ELSE IF IsLikelyHeading(block_text, max_size, is_bold, doc_text_lower)
                          THEN << [text |-> block_text, size |-> max_size,
                                   bold |-> is_bold, page |-> page_num] >> \o rest
                          ELSE rest

RECURSIVE AllHeadings(_, _, _)
\* all_headings after the loop over the first n pages
AllHeadings(pages, n, doc_text_lower) ==
    IF n = 0 THEN <<>>
    ELSE AllHeadings(pages, n - 1, doc_text_lower)
         \o ExtractHeadingsFromPage(pages[n], n - 1, doc_text_lower)

\* ------------------------------------------------------- filter and leveler
RECURSIVE UniqueFrom(_, _)
\* unique_headings: the headings whose stripped text is not in seen
UniqueFrom(headings, seen) ==
    IF headings = <<>> THEN <<>>
    ELSE LET heading == Head(headings)
             text == Strip(heading.text)
         IN  IF text \in seen THEN UniqueFrom(Tail(headings), seen)
             ELSE <<heading>> \o UniqueFrom(Tail(headings), seen \cup {text})

\* Faulty variant of the deduplication loop: every heading is kept.
KeepDuplicates(headings) == headings

\* The deduplication loop of _filter_headings.
UniqueHeadings(headings) == UniqueFrom(headings, {})

\* The branch of the if/elif/else cascade of _filter_headings that a
\* document text selects: the two single-heading profiles, then the keyword
\* leveling of the RFP profile, then leveling by font size.
FilterProfile(doc_text_lower) ==
    IF Contains(doc_text_lower, <<"p", "a", "t", "h", "w", "a", "y", " ", "o", "p", "t", "i", "o", "n", "s">>)
       \/ Contains(doc_text_lower, <<"s", "t", "e", "m", " ", "p", "a", "t", "h", "w", "a", "y", "s">>) THEN "pathway"
    ELSE IF Contains(doc_text_lower, <<"h", "o", "p", "e", " ", "t", "o", " ", "s", "e", "e", " ", "y", "o", "u">>)
            \/ Contains(doc_text_lower, <<"r", "s", "v", "p">>) THEN "rsvp"
    ELSE IF Contains(doc_text_lower, <<"r", "f", "p">>)
            \/ Contains(doc_text_lower, <<"d", "i", "g", "i", "t", "a", "l", " ", "l", "i", "b", "r", "a", "r", "y">>) THEN "rfp"
    ELSE "size"

\* Faulty variant of the single-heading loop: the page of the heading is kept.
SingleHeadingKeepsPage(unique_headings, phrase) ==
    LET hits == {i \in 1..Len(unique_headings) :
                    Contains(ToLower(unique_headings[i].text), phrase)}
    IN  IF hits = {} THEN <<>>
        ELSE << [level |-> "H1", text |-> unique_headings[Minimum(hits)].text,
                 page |-> unique_headings[Minimum(hits)].page] >>

\* The loop that returns the first heading containing the phrase, as H1 on
\* page 0, or nothing.
SingleHeading(unique_headings, phrase) ==
    LET hits == {i \in 1..Len(unique_headings) :
                    Contains(ToLower(unique_headings[i].text), phrase)}
    IN  IF hits = {} THEN <<>>
        ELSE << [level |-> "H1", text |-> unique_headings[Minimum(hits)].text,
                 page |-> 0] >>

\* The level of one heading in the else branch.
Level(heading, profile) ==
    LET text == ToLower(heading.text)
    IN  IF profile = "rfp"
            THEN IF \E s \in {<<"s", "u", "m", "m", "a", "r", "y">>, <<"b", "a", "c", "k", "g", "r", "o", "u", "n", "d">>, <<"m", "i", "l", "e", "s", "t", "o", "n", "e", "s">>,
                              <<"a", "p", "p", "r", "o", "a", "c", "h">>, <<"e", "v", "a", "l", "u", "a", "t", "i", "o", "n">>} : Contains(text, s)
                     THEN "H1"
                 ELSE IF \E s \in {<<"a", "p", "p", "e", "n", "d", "i", "x">>, <<"t", "e", "r", "m", "s", " ", "o", "f", " ", "r", "e", "f", "e", "r", "e", "n", "c", "e">>,
                                   <<"m", "e", "m", "b", "e", "r", "s", "h", "i", "p">>} : Contains(text, s)
                     THEN "H2"
                 ELSE "H3"
        ELSE IF heading.size > 16 THEN "H1"
        ELSE IF heading.size > 14 THEN "H2"
        ELSE "H3"

\* Faulty variant of the sort: descending pages.
RECURSIVE SortByPageDescendingKeys(_, _)
SortByPageDescendingKeys(result, keys) ==
    IF keys = {} THEN <<>>
    ELSE SelectSeq(result, LAMBDA x : x.page = Maximum(keys))
         \o SortByPageDescendingKeys(result, keys \ {Maximum(keys)})

SortByPageDescending(result) ==
    SortByPageDescendingKeys(result, {result[i].page : i \in 1..Len(result)})

RECURSIVE SortByPageKeys(_, _)
\* The entries of the smallest page first, each page's entries in their
\* order in result: what a stable sort on the page yields.
SortByPageKeys(result, keys) ==
    IF keys = {} THEN <<>>
    ELSE SelectSeq(result, LAMBDA x : x.page = Minimum(keys))
         \o SortByPageKeys(result, keys \ {Minimum(keys)})

\* result.sort(key=page): ascending and stable.
SortByPage(result) ==
    SortByPageKeys(result, {result[i].page : i \in 1..Len(result)})

\* _filter_headings
FilterHeadings(headings, doc_text_lower) ==
    IF headings = <<>> THEN <<>>
    ELSE LET unique_headings == UniqueHeadings(headings)
             profile == FilterProfile(doc_text_lower)
         IN  IF profile = "pathway"
                 THEN SingleHeading(unique_headings, <<"p", "a", "t", "h", "w", "a", "y", " ", "o", "p", "t", "i", "o", "n", "s">>)
             ELSE IF profile = "rsvp"
                 THEN SingleHeading(unique_headings, <<"h", "o", "p", "e", " ", "t", "o", " ", "s", "e", "e", " ", "y", "o", "u", " ", "t", "h", "e", "r", "e">>)
             ELSE SortByPage([i \in 1..Len(unique_headings) |->
                     [level |-> Level(unique_headings[i], profile),
                      text |-> unique_headings[i].text,
                      page |-> unique_headings[i].page]])

\* The outline the pages would get without the form-document test.
HeadingsIgnoringForm(pages) ==
    FilterHeadings(AllHeadings(pages, Len(pages), DocTextLower(pages)),
                   DocTextLower(pages))

\* Faulty variant of _extract_headings: the form-document test reads the text
\* before it is lowercased.
ExtractHeadingsCaseSensitive(pages) ==
    LET doc_text == ConcatPages(pages, IF Len(pages) < 3 THEN Len(pages) ELSE 3)
    IN  IF IsFormDocument(doc_text) THEN <<>>
        ELSE FilterHeadings(AllHeadings(pages, Len(pages), ToLower(doc_text)),
                            ToLower(doc_text))

\* _extract_headings
ExtractHeadings(pages) ==
    LET doc_text_lower == DocTextLower(pages)
    IN  IF IsFormDocument(doc_text_lower) THEN <<>>
        ELSE FilterHeadings(AllHeadings(pages, Len(pages), doc_text_lower),
                            doc_text_lower)

\* ------------------------------------------------------ the block catalogue
\* One-span text block.
Block(text, size, flags, top) == TextBlock(<< Span(text, size, flags, top) >>)

\* The blocks the documents of the model are made of, by name.  Flags 16 and
\* 20 carry the bold bit, flags 0 and 4 do not.
Blocks ==
    [ bProjectTitle |-> Block(<<"P", "r", "o", "j", "e", "c", "t", " ", "O", "v", "e", "r", "v", "i", "e", "w", " ", "D", "o", "c", "u", "m", "e", "n", "t">>, 18, 20, 50),
      bAppForm      |-> Block(<<"A", "p", "p", "l", "i", "c", "a", "t", "i", "o", "n", " ", "F", "o", "r", "m", " ", "f", "o", "r", " ", "L", "T", "C">>, 12, 0, 120),
      bGov          |-> Block(<<"G", "O", "V", "E", "R", "N", "M", "E", "N", "T", " ", "S", "E", "R", "V", "A", "N", "T", " ", "L", "E", "A", "V", "E">>, 12, 4, 100),
      bRfpYear      |-> Block(<<"R", "F", "P", ":", " ", "P", "l", "a", "n", " ", "2", "0", "2", "4">>, 18, 16, 80),
      bSummary      |-> Block(<<"E", "x", "e", "c", "u", "t", "i", "v", "e", " ", "S", "u", "m", "m", "a", "r", "y">>, 12, 0, 140),
      bAppendix     |-> Block(<<"A", "p", "p", "e", "n", "d", "i", "x", " ", "A">>, 12, 0, 300),
      bTimeline     |-> Block(<<"T", "i", "m", "e", "l", "i", "n", "e">>, 17, 0, 400),
      bStem         |-> Block(<<"S", "T", "E", "M", " ", "P", "A", "T", "H", "W", "A", "Y", "S">>, 12, 0, 90),
      bPathOpt      |-> Block(<<"P", "a", "t", "h", "w", "a", "y", " ", "O", "p", "t", "i", "o", "n", "s">>, 12, 0, 210),
      bRsvp         |-> Block(<<"R", "S", "V", "P", ":", " ", "5", "5", "5", "-", "0", "1", "0", "0">>, 12, 0, 90),
      bHope         |-> Block(<<"H", "o", "p", "e", " ", "T", "o", " ", "S", "e", "e", " ", "Y", "o", "u", " ", "T", "h", "e", "r", "e", "!">>, 12, 4, 210),
      bFoundation   |-> Block(<<"F", "o", "u", "n", "d", "a", "t", "i", "o", "n", " ", "L", "e", "v", "e", "l", " ", "E", "x", "t", "e", "n", "s", "i", "o", "n">>, 12, 0, 90),
      bIntro        |-> Block(<<"I", "n", "t", "r", "o", "d", "u", "c", "t", "i", "o", "n">>, 12, 0, 210),
      bOverviewBold |-> Block(<<"O", "v", "e", "r", "v", "i", "e", "w">>, 15, 16, 300),
      bScope        |-> Block(<<"1", ".", "2", " ", "S", "c", "o", "p", "e">>, 18, 16, 60),
      bInProgress   |-> Block(<<"1", ".", " ", "i", "n", " ", "p", "r", "o", "g", "r", "e", "s", "s">>, 18, 16, 90),
      bListItemCap  |-> Block(<<"1", ".", " ", "I", "n", "t", "r", "o", "d", "u", "c", "t", "i", "o", "n">>, 18, 16, 120),
      bSubItem      |-> Block(<<"2", ".", "1", " ", "S", "o", "m", "e", "t", "h", "i", "n", "g">>, 18, 16, 150),
      bOverview     |-> Block(<<"O", "v", "e", "r", "v", "i", "e", "w">>, 18, 0, 180),
      bOverSplit    |-> [lines |-> << [spans |-> << Span(<<" ", " ", "O", "v", "e", "r">>, 12, 0, 215) >>],
                                      [spans |-> << Span(<<"v", "i", "e", "w", " ">>, 15, 16, 230) >>] >>],
      bImage        |-> ImageBlock,
      bBody         |-> Block(<<"D", "e", "t", "a", "i", "l", "s", " ", "f", "o", "l", "l", "o", "w", " ", "b", "e", "l", "o", "w">>, 12, 0, 260),
      bChapter      |-> Block(<<"C", "H", "A", "P", "T", "E", "R", " ", "O", "N", "E">>, 12, 0, 290),
      bDots         |-> Block(<<"C", "o", "n", "t", "e", "n", "t", "s", " ">> \o Rep(".", 41) \o <<" ", "7">>, 18, 16, 320),
      bWww          |-> Block(<<"w", "w", "w", ".", "e", "x", "a", "m", "p", "l", "e", ".", "n", "e", "t">>, 18, 16, 340),
      bDotCom       |-> Block(<<"E", "x", "a", "m", "p", "l", "e", ".", "c", "o", "m">>, 18, 16, 360),
      bDotOrg       |-> Block(<<"E", "X", "A", "M", "P", "L", "E", ".", "o", "r", "g">>, 18, 16, 380),
      bService      |-> Block(<<"C", "u", "s", "t", "o", "m", "e", "r", " ", "S", "e", "r", "v", "i", "c", "e">>, 18, 16, 400),
      bNumber       |-> Block(<<"2", "0", "2", "4">>, 18, 16, 420),
      bLongProse    |-> Block(Rep("a", 100) \o <<",">>, 18, 16, 440),
      bLong         |-> Block(Rep("a", 101), 18, 16, 460),
      bBullet       |-> Block(<<"-", " ", "i", "t", "e", "m", " ", "o", "n", "e">>, 18, 16, 480),
      bStar         |-> Block(<<"*", " ", "n", "o", "t", "e">>, 18, 16, 500),
      bGlyph        |-> Block(BulletGlyph \o <<" ", "i", "t", "e", "m">>, 18, 16, 520),
      bAmounts      |-> Block(<<"$", "5", "M", "$", "1", "0", "M">>, 18, 16, 540),
      bLabelled     |-> Block(<<"T", "O", "T", "A", "L", " ", "$", "5", "M">>, 18, 16, 560),
      bTooLong      |-> Block(<<"A">> \o Rep("a", 200), 18, 16, 580),
      bLen200       |-> Block(<<"A">> \o Rep("a", 199), 18, 16, 600),
      bTooShort     |-> Block(<<"A", "B">>, 18, 16, 620),
      bLen3         |-> Block(<<"A", "B", "C">>, 18, 16, 640),
      \* The title family: four texts (stripped lengths 10, 11, 199, 200)
      \* under six combinations of bold, size and top.
      t10a1  |-> Block(<<"S", "h", "o", "r", "t", " ", "t", "i", "t", "l">>, 14, 16, 200),
      t10a2  |-> Block(<<"S", "h", "o", "r", "t", " ", "t", "i", "t", "l">>, 17, 0, 200),
      t10a3  |-> Block(<<"S", "h", "o", "r", "t", " ", "t", "i", "t", "l">>, 16, 0, 199),
      t10a4  |-> Block(<<"S", "h", "o", "r", "t", " ", "t", "i", "t", "l">>, 14, 0, 199),
      t10a5  |-> Block(<<"S", "h", "o", "r", "t", " ", "t", "i", "t", "l">>, 17, 16, 199),
      t10a6  |-> Block(<<"S", "h", "o", "r", "t", " ", "t", "i", "t", "l">>, 15, 4, 200),
      t11a1  |-> Block(<<" ", "\t", "S", "h", "o", "r", "t", " ", "t", "i", "t", "l", "e", " ", "\n">>, 14, 16, 200),
      t11a2  |-> Block(<<" ", "\t", "S", "h", "o", "r", "t", " ", "t", "i", "t", "l", "e", " ", "\n">>, 17, 0, 200),
      t11a3  |-> Block(<<" ", "\t", "S", "h", "o", "r", "t", " ", "t", "i", "t", "l", "e", " ", "\n">>, 16, 0, 199),
      t11a4  |-> Block(<<" ", "\t", "S", "h", "o", "r", "t", " ", "t", "i", "t", "l", "e", " ", "\n">>, 14, 0, 199),
      t11a5  |-> Block(<<" ", "\t", "S", "h", "o", "r", "t", " ", "t", "i", "t", "l", "e", " ", "\n">>, 17, 16, 199),
      t11a6  |-> Block(<<" ", "\t", "S", "h", "o", "r", "t", " ", "t", "i", "t", "l", "e", " ", "\n">>, 15, 4, 200),
      t199a1 |-> Block(<<"L", "o", "n", "g", " ">> \o Rep("g", 194), 14, 16, 200),
      t199a2 |-> Block(<<"L", "o", "n", "g", " ">> \o Rep("g", 194), 17, 0, 200),
      t199a3 |-> Block(<<"L", "o", "n", "g", " ">> \o Rep("g", 194), 16, 0, 199),
      t199a4 |-> Block(<<"L", "o", "n", "g", " ">> \o Rep("g", 194), 14, 0, 199),
      t199a5 |-> Block(<<"L", "o", "n", "g", " ">> \o Rep("g", 194), 17, 16, 199),
      t199a6 |-> Block(<<"L", "o", "n", "g", " ">> \o Rep("g", 194), 15, 4, 200),
      t200a1 |-> Block(<<"L", "o", "n", "g", " ">> \o Rep("g", 195), 14, 16, 200),
      t200a2 |-> Block(<<"L", "o", "n", "g", " ">> \o Rep("g", 195), 17, 0, 200),
      t200a3 |-> Block(<<"L", "o", "n", "g", " ">> \o Rep("g", 195), 16, 0, 199),
      t200a4 |-> Block(<<"L", "o", "n", "g", " ">> \o Rep("g", 195), 14, 0, 199),
      t200a5 |-> Block(<<"L", "o", "n", "g", " ">> \o Rep("g", 195), 17, 16, 199),
      t200a6 |-> Block(<<"L", "o", "n", "g", " ">> \o Rep("g", 195), 15, 4, 200),
      \* two spans: the size, the bold bit and the top come from different spans
      tTwoSpans |-> TextBlock(<< Span(<<"A", "n", "n", "u", "a", "l", " ">>, 17, 0, 240),
                                 Span(<<"R", "e", "p", "o", "r", "t", " ", "2", "0", "2", "4">>, 12, 16, 190) >>) ]

TitleBlockNames ==
    { "t10a1", "t10a2", "t10a3", "t10a4", "t10a5", "t10a6",
      "t11a1", "t11a2", "t11a3", "t11a4", "t11a5", "t11a6",
      "t199a1", "t199a2", "t199a3", "t199a4", "t199a5", "t199a6",
      "t200a1", "t200a2", "t200a3", "t200a4", "t200a5", "t200a6",
      "tTwoSpans" }

\* A page the extractor can read, holding the named blocks.
Page(names) == [ok |-> TRUE, blocks |-> names]

\* A page on which get_text raises.
DamagedPage == [ok |-> FALSE, blocks |-> <<>>]

PageForm == Page(<<"bProjectTitle", "bAppForm">>)

PageGov == Page(<<"bGov", "bOverview">>)

PageRfp == Page(<<"bRfpYear", "bSummary", "bAppendix", "bTimeline">>)

PagePathway == Page(<<"bStem", "bPathOpt">>)

PageRsvp == Page(<<"bRsvp", "bHope">>)

PageFoundation == Page(<<"bFoundation", "bIntro", "bOverviewBold">>)

PageGeneric ==
    Page(<<"bScope", "bInProgress", "bListItemCap", "bSubItem", "bOverview",
           "bOverSplit", "bImage", "bBody", "bChapter", "bDots", "bWww",
           "bDotCom", "bDotOrg", "bService", "bNumber", "bLongProse", "bLong",
           "bBullet", "bStar", "bGlyph", "bAmounts", "bLabelled", "bTooLong",
           "bLen200", "bTooShort", "bLen3">>)

HeadingPages ==
    { PageForm, PageGov, PageRfp, PagePathway, PageRsvp, PageFoundation,
      PageGeneric }

\* The sequences over S of length at most n.
SeqUpTo(S, n) == UNION {[1..k -> S] : k \in 0..n}

\* A file fitz.open can open, with its pages.
Document(pages) == [readable |-> TRUE, pages |-> pages]

\* A file on which fitz.open raises.
Unreadable == [readable |-> FALSE, pages |-> <<>>]

\* Documents that fail: at fitz.open, on the first page, on a later page,
\* and a form document whose damaged page lies beyond the first three.
DamagedDocs ==
    { Unreadable,
      Document(<<DamagedPage>>),
      Document(<<PageGeneric, DamagedPage>>),
      Document(<<PageGeneric, PageGeneric, PageGeneric, DamagedPage>>),
      Document(<<PageGeneric, PageForm, PageGeneric, DamagedPage>>) }

\* Documents with a page beyond the three that make the document text.
FourPageDocs ==
    {Document(<<PageGeneric, PageRsvp, PageGeneric, p>>) : p \in HeadingPages}
    \cup {Document(<<PageGeneric, PageGeneric, PageGeneric, p>>) : p \in HeadingPages}

HeadingDocs ==
    {Document(s) : s \in SeqUpTo(HeadingPages, MaxPages)}
    \cup FourPageDocs \cup DamagedDocs

TitleDocs ==
    {Document(<<Page(s)>>) : s \in SeqUpTo(TitleBlockNames, MaxTitleBlocks)}
    \cup DamagedDocs

RunDocs ==
    {Document(<<p>>) : p \in HeadingPages} \cup {Document(<<>>)} \cup DamagedDocs

\* text_dict["blocks"] of every page of a document
PageBlocks(doc) ==
    [i \in 1..Len(doc.pages) |->
        [j \in 1..Len(doc.pages[i].blocks) |-> Blocks[doc.pages[i].blocks[j]]]]

\* --------------------------------------------------------------- the program
VARIABLES
    pdf_files,   \* the documents behind the paths of input_path.glob("*.pdf")
    idx,         \* the position of the for loop of process_pdfs, from 1
    pc,          \* "loop" | "title" | "headings" | "returned" | "done"
    handles,     \* the positions whose document handle is open
    title,       \* the local variable title of extract_outline
    result,      \* the record extract_outline returned
    outputs      \* the records written so far, one JSON file each, in order

vars == <<pdf_files, idx, pc, handles, title, result, outputs>>

\* {"title": "", "outline": []}
DefaultRecord == [title |-> <<>>, outline |-> <<>>]

\* The document of the current loop position.
doc == pdf_files[idx]

\* _extract_title raises when get_text fails on the first page.
TitleFails(d) == Len(d.pages) > 0 /\ ~d.pages[1].ok

\* _extract_headings raises when get_text fails on a page it reads: one of
\* the first three, or any page once the document is not a form document.
HeadingsFails(d) ==
    LET n == IF Len(d.pages) < 3 THEN Len(d.pages) ELSE 3
    IN  \/ \E i \in 1..n : ~d.pages[i].ok
        \/ /\ \E i \in 1..Len(d.pages) : ~d.pages[i].ok
           /\ ~IsFormDocument(DocTextLower(PageBlocks(d)))

InitVars ==
    /\ idx = 1
    /\ pc = "loop"
    /\ handles = {}
    /\ title = <<>>
    /\ result = DefaultRecord
    /\ outputs = <<>>

\* One document of the heading family, or an empty directory.
Init ==
    /\ pdf_files \in {<<>>} \cup {<<d>> : d \in HeadingDocs}
    /\ InitVars

\* One document of the title family, or an empty directory.
InitTitle ==
    /\ pdf_files \in {<<>>} \cup {<<d>> : d \in TitleDocs}
    /\ InitVars

\* A directory of up to NumFiles documents.
InitRun ==
    /\ pdf_files \in SeqUpTo(RunDocs, NumFiles)
    /\ InitVars

\* process_pdfs: no PDF files found, return.
NoFiles ==
    /\ pc = "loop" /\ pdf_files = <<>>
    /\ pc' = "done"
    /\ UNCHANGED <<pdf_files, idx, handles, title, result, outputs>>

\* extract_outline: fitz.open succeeds.
Open ==
    /\ pc = "loop" /\ idx <= Len(pdf_files)
    /\ doc.readable
    /\ handles' = handles \cup {idx}
    /\ pc' = "title"
    /\ UNCHANGED <<pdf_files, idx, title, result, outputs>>

\* Faulty variant of the except branch: the title found so far is returned.
ExceptKeepsTitle == [title |-> title, outline |-> <<>>]

\* The except branch of extract_outline: print the error, return the default.
Except == DefaultRecord

\* extract_outline: fitz.open raises, the except branch returns.
OpenRaises ==
    /\ pc = "loop" /\ idx <= Len(pdf_files)
    /\ ~doc.readable
    /\ result' = Except
    /\ pc' = "returned"
    /\ UNCHANGED <<pdf_files, idx, handles, title, outputs>>

\* extract_outline: title = self._extract_title(doc)
Title ==
    /\ pc = "title"
    /\ ~TitleFails(doc)
    /\ title' = ExtractTitle(PageBlocks(doc))
    /\ pc' = "headings"
    /\ UNCHANGED <<pdf_files, idx, handles, result, outputs>>

\* extract_outline: _extract_title raises, the except branch returns.
TitleRaises ==
    /\ pc = "title"
    /\ TitleFails(doc)
    /\ result' = Except
    /\ title' = <<>>
    /\ pc' = "returned"
    /\ UNCHANGED <<pdf_files, idx, handles, outputs>>

\* extract_outline: outline = self._extract_headings(doc); doc.close();
\* return {"title": title, "outline": outline}
HeadingsCloseReturn ==
    /\ pc = "headings"
    /\ ~HeadingsFails(doc)
    /\ result' = [title |-> title, outline |-> ExtractHeadings(PageBlocks(doc))]
    /\ handles' = handles \ {idx}
    /\ title' = <<>>
    /\ pc' = "returned"
    /\ UNCHANGED <<pdf_files, idx, outputs>>

\* extract_outline: _extract_headings raises, the except branch returns.
HeadingsRaises ==
    /\ pc = "headings"
    /\ HeadingsFails(doc)
    /\ result' = Except
    /\ title' = <<>>
    /\ pc' = "returned"
    /\ UNCHANGED <<pdf_files, idx, handles, outputs>>

\* process_pdfs: json.dump(result) into the file of this document, next file.
Write ==
    /\ pc = "returned"
    /\ outputs' = Append(outputs, result)
    /\ idx' = idx + 1
    /\ pc' = "loop"
    /\ UNCHANGED <<pdf_files, handles, title, result>>

\* process_pdfs: the loop is over.
Finish ==
    /\ pc = "loop" /\ pdf_files # <<>> /\ idx > Len(pdf_files)
    /\ pc' = "done"
    /\ UNCHANGED <<pdf_files, idx, handles, title, result, outputs>>

Next ==
    \/ NoFiles
    \/ Open
    \/ OpenRaises
    \/ Title
    \/ TitleRaises
    \/ HeadingsCloseReturn
    \/ HeadingsRaises
    \/ Write
    \/ Finish

Spec == Init /\ [][Next]_vars

SpecTitle == InitTitle /\ [][Next]_vars

SpecRun == InitRun /\ [][Next]_vars

\* ------------------------------------------------------------------ claims
\* extract_outline ran to its return statement on this document.
Succeeds(d) == d.readable /\ ~TitleFails(d) /\ ~HeadingsFails(d)

\* The text of the first min(3, pageCount) pages can be read.
TextReadable(d) ==
    /\ d.readable
    /\ \A i \in 1..(IF Len(d.pages) < 3 THEN Len(d.pages) ELSE 3) : d.pages[i].ok

\* The lowercased text of the first pages of the current document.
CurrentText == DocTextLower(PageBlocks(doc))

\* The heading candidates of the current document, in discovery order.
CurrentHeadings ==
    AllHeadings(PageBlocks(doc), Len(doc.pages), CurrentText)

\* The position of the first of the headings with this text.
Rank(headings, text) ==
    Minimum({i \in 1..Len(headings) : headings[i].text = text})

\* C1: a document whose first-pages text contains "application form" or
\* "government servant" gets an empty outline, whatever its blocks and title;
\* no page is read for headings, so a page beyond the third that cannot be
\* read does not cost the document its title.
C1_FormDocumentHasEmptyOutline ==
    (/\ pc = "returned"
     /\ TextReadable(doc)
     /\ \/ Contains(CurrentText, <<"a", "p", "p", "l", "i", "c", "a", "t", "i", "o", "n", " ", "f", "o", "r", "m">>)
        \/ Contains(CurrentText, <<"g", "o", "v", "e", "r", "n", "m", "e", "n", "t", " ", "s", "e", "r", "v", "a", "n", "t">>))
    => /\ result.outline = <<>>
       /\ ~TitleFails(doc) => result.title = ExtractTitle(PageBlocks(doc))

\* A form document with a title and with blocks that pass as headings was
\* processed without failure.
C1_Witness ==
    /\ pc = "returned"
    /\ Succeeds(doc)
    /\ Contains(CurrentText, <<"a", "p", "p", "l", "i", "c", "a", "t", "i", "o", "n", " ", "f", "o", "r", "m">>)
    /\ result.title # <<>>
    /\ HeadingsIgnoringForm(PageBlocks(doc)) # <<>>
    /\ result.outline = <<>>

\* C2: a pathway flyer or RSVP invite gets an outline of at most one entry,
\* and that entry is H1 on page 0.
C2_SingleHeadingProfiles ==
    (/\ pc = "returned"
     /\ TextReadable(doc)
     /\ \/ Contains(CurrentText, <<"p", "a", "t", "h", "w", "a", "y", " ", "o", "p", "t", "i", "o", "n", "s">>)
        \/ Contains(CurrentText, <<"s", "t", "e", "m", " ", "p", "a", "t", "h", "w", "a", "y", "s">>)
        \/ Contains(CurrentText, <<"h", "o", "p", "e", " ", "t", "o", " ", "s", "e", "e", " ", "y", "o", "u">>)
        \/ Contains(CurrentText, <<"r", "s", "v", "p">>))
    => /\ Len(result.outline) <= 1
       /\ \A i \in 1..Len(result.outline) :
             result.outline[i].level = "H1" /\ result.outline[i].page = 0

\* A document with the keywords of both single-heading profiles whose matching
\* block lies on a later page than the first got its one entry.
C2_Witness ==
    /\ pc = "returned"
    /\ Succeeds(doc)
    /\ Contains(CurrentText, <<"p", "a", "t", "h", "w", "a", "y", " ", "o", "p", "t", "i", "o", "n", "s">>)
    /\ Contains(CurrentText, <<"r", "s", "v", "p">>)
    /\ Len(result.outline) = 1
    /\ LET found == CurrentHeadings
       IN  \A i \in 1..Len(found) :
              Contains(ToLower(found[i].text), <<"p", "a", "t", "h", "w", "a", "y", " ", "o", "p", "t", "i", "o", "n", "s">>) => found[i].page > 0

\* C3: a failure at any step of extract_outline yields exactly the default
\* record, the record of every processed document is written, the failing
\* ones as the default record, and the run ends only after the last file.
C3_FailureGivesDefaultRecord ==
    /\ (pc = "returned" /\ ~Succeeds(doc)) => result = DefaultRecord
    /\ pc \in {"loop", "done"} => Len(outputs) = idx - 1
    /\ \A i \in 1..Len(outputs) :
          ~Succeeds(pdf_files[i]) => outputs[i] = DefaultRecord
    /\ (pc = "done" /\ pdf_files # <<>>) => Len(outputs) = Len(pdf_files)

\* The first document failed after its title had been extracted, and the
\* second one was still processed and written with a real record.
C3_Witness ==
    /\ pc = "done"
    /\ Len(pdf_files) = 2
    /\ pdf_files[1].readable /\ ~TitleFails(pdf_files[1]) /\ HeadingsFails(pdf_files[1])
    /\ outputs[1] = DefaultRecord
    /\ outputs[2].title # <<>> /\ outputs[2].outline # <<>>

\* C4: once extract_outline has returned no document handle is open.
C4_HandlesClosedOnReturn ==
    pc \in {"returned", "loop", "done"} => handles = {}

\* The claimed score of a page-0 block.
ClaimedScore(spans) ==
    (IF IsBold(spans) THEN 3 ELSE 0)
    + (IF MaxSize(spans) > 16 THEN 2 ELSE IF MaxSize(spans) > 14 THEN 1 ELSE 0)
    + (IF YPosition(spans) < 200 THEN 2 ELSE 0)

\* The claimed candidates of the first page of the current document: the
\* stripped text and the score of every text block of length 11..199.
ClaimedCandidates ==
    LET blocks == IF Len(doc.pages) = 0 THEN <<>> ELSE PageBlocks(doc)[1]
        textBlocks == {i \in 1..Len(blocks) : "lines" \in DOMAIN blocks[i]}
        all == {[text |-> Strip(SpanText(LineSpans(blocks[i].lines))),
                 score |-> ClaimedScore(LineSpans(blocks[i].lines))] : i \in textBlocks}
    IN  {c \in all : Len(c.text) > 10 /\ Len(c.text) < 200}

\* C5: the title is empty when no candidate scores above 2, and a non-empty
\* title is the text of a candidate of the highest score.
C5_TitleIsBestCandidate ==
    pc = "headings"
    => /\ Len(doc.pages) = 0 => title = <<>>
       /\ (\A c \in ClaimedCandidates : c.score <= 2) => title = <<>>
       /\ title # <<>> =>
             \E c \in ClaimedCandidates :
                 /\ c.text = title
                 /\ \A other \in ClaimedCandidates : other.score <= c.score

\* Two candidates of different scores, the better one second, and a title.
C5_Witness ==
    /\ pc = "headings"
    /\ Len(doc.pages) = 1
    /\ title # <<>>
    /\ \E c, d \in ClaimedCandidates : c.score < d.score /\ c.score > 2 /\ d.text = title
    /\ \E c \in ClaimedCandidates : c.text # title

\* C6: no two outline entries have the same text, and outside the
\* single-heading profiles each entry is the first discovered heading of
\* its text.
C6_NoDuplicateText ==
    pc = "returned"
    => /\ \A i, j \in 1..Len(result.outline) :
             i # j => result.outline[i].text # result.outline[j].text
       /\ (Succeeds(doc) /\ FilterProfile(CurrentText) \in {"rfp", "size"})
          => LET found == CurrentHeadings
             IN  \A i \in 1..Len(result.outline) :
                    result.outline[i].page
                        = found[Rank(found, result.outline[i].text)].page

\* The same text was found on two pages in two sizes and is in the outline.
C6_Witness ==
    /\ pc = "returned"
    /\ Succeeds(doc)
    /\ LET found == CurrentHeadings
       IN  \E i, j \in 1..Len(found) :
              /\ found[i].text = found[j].text
              /\ found[i].page # found[j].page
              /\ found[i].size # found[j].size
              /\ \E k \in 1..Len(result.outline) :
                    result.outline[k].text = found[i].text

\* C7: pages never decrease along the outline, and entries of one page are
\* in the order their blocks were discovered.
C7_PagesNonDecreasing ==
    pc = "returned"
    => LET found == CurrentHeadings
       IN  \A i, j \in 1..Len(result.outline) :
              i < j =>
                 /\ result.outline[i].page <= result.outline[j].page
                 /\ result.outline[i].page = result.outline[j].page
                    => Rank(found, result.outline[i].text)
                           < Rank(found, result.outline[j].text)

\* An outline over two pages with two entries on one of them.
C7_Witness ==
    /\ pc = "returned"
    /\ \E i, j, k \in 1..Len(result.outline) :
          /\ i < j /\ j < k
          /\ result.outline[i].page = result.outline[j].page
          /\ result.outline[j].page < result.outline[k].page

ScopeText == <<"1", ".", "2", " ", "S", "c", "o", "p", "e">>

\* The catalogue blocks whose stripped text is "1.2 Scope".
ScopeBlocks ==
    {n \in DOMAIN Blocks :
        /\ "lines" \in DOMAIN Blocks[n]
        /\ Strip(SpanText(LineSpans(Blocks[n].lines))) = ScopeText}

\* The current document has a "1.2 Scope" block and the generic profile.
GenericWithScope ==
    /\ pc = "returned"
    /\ Succeeds(doc)
    /\ \E i \in 1..Len(doc.pages) :
          \E j \in 1..Len(doc.pages[i].blocks) : doc.pages[i].blocks[j] \in ScopeBlocks
    /\ ~IsFormDocument(CurrentText)
    /\ InclusionProfile(CurrentText) = "generic"
    /\ FilterProfile(CurrentText) = "size"

\* C8 as claimed: a "1.2 Scope" block of a generic-profile document yields an
\* outline entry.
C8_ScopeIsIncluded ==
    GenericWithScope
    => \E k \in 1..Len(result.outline) : result.outline[k].text = ScopeText

\* C8 as amended: "1.2 Scope" matches inclusion rule 1, but the exclusion
\* rules run first and no outline of any document has an entry of that text.
C8_ScopeIsExcluded ==
    /\ MatchNumberedHeading(ScopeText)
    /\ pc = "returned"
       => \A k \in 1..Len(result.outline) : result.outline[k].text # ScopeText

\* A generic-profile document with a "1.2 Scope" block got an outline.
C8_Witness == GenericWithScope /\ result.outline # <<>>

\* C9: every outline entry has a text of length 3..200 that no exclusion rule
\* matches; "1. in progress" is never one.
C9_ExclusionWins ==
    pc = "returned"
    => \A k \in 1..Len(result.outline) :
          /\ Len(result.outline[k].text) >= 3
          /\ Len(result.outline[k].text) <= 200
          /\ ~IsObviouslyNotHeading(result.outline[k].text)
          /\ result.outline[k].text # <<"1", ".", " ", "i", "n", " ", "p", "r", "o", "g", "r", "e", "s", "s">>

\* A document with a bold, size 18 "1. in progress" block got an outline that
\* holds texts of both limit lengths.
C9_Witness ==
    /\ pc = "returned"
    /\ Succeeds(doc)
    /\ \E i \in 1..Len(doc.pages) :
          \E j \in 1..Len(doc.pages[i].blocks) : doc.pages[i].blocks[j] = "bInProgress"
    /\ IsLikelyHeading(<<"1", ".", " ", "i", "n", " ", "p", "r", "o", "g", "r", "e", "s", "s">>, 18, TRUE, CurrentText)
    /\ \E k \in 1..Len(result.outline) : Len(result.outline[k].text) = 3
    /\ \E k \in 1..Len(result.outline) : Len(result.outline[k].text) = 200

\* The profile the claim gives a document text: pathway flyer, RSVP invite,
\* foundation/technical, RFP/digital-library, generic, the first that matches.
ClaimedProfile(doc_text_lower) ==
    IF Contains(doc_text_lower, <<"p", "a", "t", "h", "w", "a", "y", " ", "o", "p", "t", "i", "o", "n", "s">>)
       \/ Contains(doc_text_lower, <<"s", "t", "e", "m", " ", "p", "a", "t", "h", "w", "a", "y", "s">>) THEN "pathway"
    ELSE IF Contains(doc_text_lower, <<"h", "o", "p", "e", " ", "t", "o", " ", "s", "e", "e", " ", "y", "o", "u">>)
            \/ Contains(doc_text_lower, <<"r", "s", "v", "p">>) THEN "rsvp"
    ELSE IF Contains(doc_text_lower, <<"f", "o", "u", "n", "d", "a", "t", "i", "o", "n", " ", "l", "e", "v", "e", "l">>) THEN "foundation"
    ELSE IF Contains(doc_text_lower, <<"r", "f", "p">>)
            \/ Contains(doc_text_lower, <<"d", "i", "g", "i", "t", "a", "l", " ", "l", "i", "b", "r", "a", "r", "y">>) THEN "rfp"
    ELSE "generic"

\* The branch of _filter_headings a profile stands for: the foundation and
\* generic profiles are both leveled by font size.
FilterBranch(profile) ==
    IF profile \in {"foundation", "generic"} THEN "size" ELSE profile

\* C10: the keyword rule and the filter branch are selected by one profile,
\* the claimed one.
C10_OneProfilePerDocument ==
    (pc = "returned" /\ TextReadable(doc))
    => /\ InclusionProfile(CurrentText) = ClaimedProfile(CurrentText)
       /\ FilterProfile(CurrentText) = FilterBranch(ClaimedProfile(CurrentText))

====
